---- MODULE Spec2Model ----
(***************************************************************************)
(* Model of github.agent.py: the paginated GitHub search (search_github),  *)
(* the clone task run by the pool threads (clone_single_repo) and the      *)
(* part of main that drives the ThreadPoolExecutor.                        *)
(*                                                                         *)
(* Two specifications share the variables:                                 *)
(*   SearchSpec  one call of search_github against an API whose answers    *)
(*               are chosen by the environment;                            *)
(*   Spec        main from the return of search_github on: the pool, the   *)
(*               clone tasks and the collection of their results.          *)
(***************************************************************************)
EXTENDS Integers, Sequences, FiniteSets, TLC

\* ------------------------------------------------------------------ bounds

\* Page size of the search API.  The program asks for 100 items per page
\* (per_page); the model scales the page down and keeps the page ceiling.
PerPage == 2
\* Longest freely ordered head of the API's result list.
MaxPrefix == 3
\* Largest "small" total of further items behind the head.
MaxFill == 2
\* Largest "small" requested count.
MaxLimit == 4
\* Largest number of descriptors handed to the pool.
MaxRepos == 3
\* Futures beyond the pool's threads in the runs that fill the pool.
CapExtra == 1

\* Largest number of descriptors in the runs checked for progress.
MaxBatch == 2

\* ------------------------------------------------------- program constants

\* "if page > 10: break"
MaxPages == 10
\* ThreadPoolExecutor(max_workers=8)
MaxWorkers == 8

\* Items one call can accumulate before the page ceiling stops it.
PageCap == MaxPages * PerPage

Min(a, b) == IF a < b THEN a ELSE b
Max(a, b) == IF a > b THEN a ELSE b

\* ---------------------------------------------------------------- strings
\* A string is a sequence of one-character strings.

WordChars == {"a", "b", "c", "o", "_"}
KeptChars == WordChars \cup {"-"}

\* re.sub(r'[^\w\-_]', '_', text)
clean_filename(text) ==
    [i \in DOMAIN text |-> IF text[i] \in KeptChars THEN text[i] ELSE "_"]

\* ------------------------------------------------------------ API items

\* An item of the API's "items" list, with the fields search_github reads.
ApiItem(n, o, s) ==
    [name |-> n, full_name |-> o \o <<"/">> \o n,
     clone_url |-> <<"https://github.com/">> \o o \o <<"/">> \o n \o <<".git">>,
     stargazers_count |-> s, owner |-> [login |-> o]]

ItemHi == ApiItem(<<"a", ".", "b">>, <<"o">>, 3)
ItemMid == ApiItem(<<"a", "_", "b">>, <<"o">>, 2)
ItemLo == ApiItem(<<"c">>, <<"o">>, 2)
\* The k-th of a run of further repositories: b, bb, bbb, ... of owner o-o.
ItemFill(k) == ApiItem([i \in 1..k |-> "b"], <<"o", "-", "o">>, 1)

ApiItems == {ItemHi, ItemMid, ItemLo}

\* The dict appended to repos_found for one item.
Descriptor(item) ==
    [name |-> item.name, full_name |-> item.full_name,
     clone_url |-> item.clone_url, stars |-> item.stargazers_count,
     owner |-> item.owner.login]

\* The descriptors main hands to the pool.
PoolDescriptors == {Descriptor(it) : it \in ApiItems}

\* ------------------------------------------------------------ workspace

\* clean_filename(f"{repo_info['name']}_{repo_info['owner']}")
FolderName(d) == clean_filename(d.name \o <<"_">> \o d.owner)

\* A directory of WORK_DIR: absent, or made by the git clone of task `by`,
\* complete or partial, with or without its .git folder.
Absent == [exists |-> FALSE]
Dir(i, whole, git) == [exists |-> TRUE, by |-> i, complete |-> whole, dotgit |-> git]

\* The Python None.
None == [none |-> TRUE]

\* ------------------------------------------------------- sequence helpers

SeqsUpTo(S, n) == UNION {[1..k -> S] : k \in 0..n}

\* s[:n] of Python, for every integer n.
Slice(s, n) ==
    IF n >= 0 THEN SubSeq(s, 1, Min(n, Len(s)))
    ELSE SubSeq(s, 1, Max(Len(s) + n, 0))

\* Position at which a stable descending sort puts x into the sorted s:
\* behind every element with at least as many stars.
InsertByStars(s, x) ==
    LET k == Cardinality({i \in DOMAIN s : s[i].stars >= x.stars})
    IN  SubSeq(s, 1, k) \o <<x>> \o SubSeq(s, k + 1, Len(s))

RECURSIVE SortFrom(_, _)
SortFrom(done, rest) ==
    IF rest = <<>> THEN done
    ELSE SortFrom(InsertByStars(done, Head(rest)), Tail(rest))

\* The sort left out.
SortLeftOut(s) == s

\* repos_found.sort(key=lambda x: x['stars'], reverse=True): stable.
SortByStars(s) == SortFrom(<<>>, s)

IsSortedByStars(s) ==
    \A i, j \in DOMAIN s : i < j => s[i].stars >= s[j].stars

\* Number of positions of s that hold x.
Count(s, x) == Cardinality({i \in DOMAIN s : s[i] = x})

SamePermutation(s, t) ==
    /\ Len(s) = Len(t)
    /\ \A i \in DOMAIN s : Count(s, s[i]) = Count(t, s[i])

\* ---------------------------------------------------------------- state

VARIABLES
    \* search_github
    catalog,        \* the API's result list for the query, in the API's order
    limit,          \* user_limit / the limit parameter
    repos_found,    \* the list search_github accumulates
    page,           \* the page number of the next request
    requests,       \* page numbers requested so far, in order
    delivered,      \* items the API has delivered in its 200 answers, in order
    failure,        \* how the last request failed: "none", "401", "403", "other", "transport"
    spc,            \* "loop" | "returned"
    result,         \* the list search_github returned
    \* main and the pool
    repos,          \* main's repos: the descriptors handed to the pool
    mainpc,         \* where main stands
    submitted,      \* number of futures created by executor.submit
    collected,      \* the values future.result() has given main, in order
    success_count,  \* main's success_count
    manifest,       \* content of _RAPPORT_DE_RECHERCHE.txt, <<>> until written
    archive,        \* folders packed into the ZIP, <<>> until it is made
    \* clone_single_repo, one per future
    tpc,            \* where each task stands
    tres,           \* the value each task returned
    calls,          \* invocations of clone_single_repo per future
    gitCalls,       \* git clone subprocesses started per task
    ending,         \* how each task's clone attempt ended
    fs              \* WORK_DIR: folder name -> directory

searchVars == <<catalog, limit, repos_found, page, requests, delivered,
                failure, spc, result>>

mainVars == <<repos, mainpc, submitted, collected, success_count, manifest,
              archive>>

taskVars == <<tpc, tres, calls, gitCalls, ending, fs>>

vars == <<searchVars, mainVars, taskVars>>

\* The futures of a run, one per descriptor of repos.
K == Len(repos)
Tasks == 1..K

\* target_path of task i
Target(i) == FolderName(repos[i])

\* The folders of WORK_DIR the tasks of a run name.
Targets == {Target(i) : i \in Tasks}

\* ------------------------------------------------------ the search API

\* The API answers page p with the p-th block of PerPage items of its list.
PageItems(cat, p) ==
    SubSeq(cat, (p - 1) * PerPage + 1, Min(p * PerPage, Len(cat)))

\* Result lists the model draws from: a freely ordered head (repeats allowed,
\* as when an item moves between pages while the client paginates) followed
\* by a run of further repositories, short or longer than the page ceiling
\* covers.
Fills == (0..MaxFill) \cup {PageCap + 1}
Catalogs ==
    {h \o [i \in 1..k |-> ItemFill(i)] : h \in SeqsUpTo(ApiItems, MaxPrefix), k \in Fills}

\* int(count_str) accepts zero and negative numbers too.
Limits == (-1..MaxLimit) \cup {PageCap, PageCap + 1}

\* ------------------------------------------------------- search_github

\* The for loop over one page: append item by item, stop at the limit.
RECURSIVE AppendItems(_, _, _)
AppendItems(found, items, lim) ==
    IF items = <<>> THEN found
    ELSE LET next == Append(found, Descriptor(Head(items)))
         IN  IF Len(next) >= lim THEN next
             ELSE AppendItems(next, Tail(items), lim)

\* while len(repos_found) < limit
LoopGuard(found) == Len(found) < limit

\* The ceiling test one page early, and one page late.
CeilingReachedOffByOne(p) == p >= MaxPages
CeilingReachedLate(p) == p > MaxPages + 1

\* if page > 10: break
CeilingReached(p) == p > MaxPages

\* Leaving the while loop: sort in place, return repos_found[:limit].
SearchReturn(found) ==
    /\ repos_found' = SortByStars(found)
    /\ result' = Slice(SortByStars(found), limit)
    /\ spc' = "returned"

\* main is inside search_github: nothing is scheduled yet.
PoolIdle ==
    /\ repos = <<>>
    /\ mainpc = "search"
    /\ submitted = 0
    /\ collected = <<>>
    /\ success_count = 0
    /\ manifest = <<>>
    /\ archive = <<>>
    /\ tpc = <<>>
    /\ tres = <<>>
    /\ calls = <<>>
    /\ gitCalls = <<>>
    /\ ending = <<>>
    /\ fs = [t \in Targets |-> Absent]

SearchInit ==
    /\ catalog \in Catalogs
    /\ limit \in Limits
    /\ repos_found = <<>>
    /\ page = 1
    /\ requests = <<>>
    /\ delivered = <<>>
    /\ failure = "none"
    /\ spc = "loop"
    /\ result = <<>>
    /\ PoolIdle

\* The loop guard fails on entry (limit <= 0): no request is made.
SearchNoRequest ==
    /\ spc = "loop"
    /\ requests = <<>>
    /\ ~LoopGuard(repos_found)
    /\ SearchReturn(repos_found)
    /\ UNCHANGED <<catalog, limit, page, requests, delivered, failure>>
    /\ UNCHANGED <<mainVars, taskVars>>

\* One iteration answered 200: the items are appended; the loop ends on an
\* empty page, at the page ceiling, or when the loop guard fails.
Page200 ==
    /\ spc = "loop"
    /\ LoopGuard(repos_found)
    /\ LET items == PageItems(catalog, page)
           found == AppendItems(repos_found, items, limit)
       IN  /\ requests' = Append(requests, page)
           /\ delivered' = delivered \o items
           /\ IF items = <<>>
              THEN /\ SearchReturn(repos_found)
                   /\ page' = page
              ELSE /\ page' = page + 1
                   /\ IF CeilingReached(page + 1) \/ ~LoopGuard(found)
                      THEN SearchReturn(found)
                      ELSE /\ repos_found' = found
                           /\ UNCHANGED <<spc, result>>
    /\ UNCHANGED <<catalog, limit, failure>>
    /\ UNCHANGED <<mainVars, taskVars>>

\* PageBreak with the accumulated list dropped, as the 401 branch drops it.
PageBreakDropsAll(how) ==
    /\ spc = "loop"
    /\ LoopGuard(repos_found)
    /\ requests' = Append(requests, page)
    /\ failure' = how
    /\ result' = <<>>
    /\ spc' = "returned"
    /\ UNCHANGED <<catalog, limit, repos_found, page, delivered>>
    /\ UNCHANGED <<mainVars, taskVars>>

\* One iteration that breaks out of the loop on how the request ended.
PageBreak(how) ==
    /\ spc = "loop"
    /\ LoopGuard(repos_found)
    /\ requests' = Append(requests, page)
    /\ failure' = how
    /\ SearchReturn(repos_found)
    /\ UNCHANGED <<catalog, limit, page, delivered>>
    /\ UNCHANGED <<mainVars, taskVars>>

\* Page401 with a break in place of the return [].
Page401Breaks ==
    /\ spc = "loop"
    /\ LoopGuard(repos_found)
    /\ requests' = Append(requests, page)
    /\ failure' = "401"
    /\ SearchReturn(repos_found)
    /\ UNCHANGED <<catalog, limit, page, delivered>>
    /\ UNCHANGED <<mainVars, taskVars>>

\* One iteration answered 401: return [].
Page401 ==
    /\ spc = "loop"
    /\ LoopGuard(repos_found)
    /\ requests' = Append(requests, page)
    /\ failure' = "401"
    /\ result' = <<>>
    /\ spc' = "returned"
    /\ UNCHANGED <<catalog, limit, repos_found, page, delivered>>
    /\ UNCHANGED <<mainVars, taskVars>>

\* 403: rate limit.
Page403 == PageBreak("403")
\* Any other status that is not 200.
PageOtherStatus == PageBreak("other")
\* requests.get raises (timeout, DNS, connection reset) or the body is not
\* JSON.  Items of a 200 answer are taken to carry the five fields read.
PageTransport == PageBreak("transport")

SearchNext ==
    \/ SearchNoRequest
    \/ Page200
    \/ Page401
    \/ Page403
    \/ PageOtherStatus
    \/ PageTransport

SearchSpec == SearchInit /\ [][SearchNext]_vars

\* =================================================================
\* main from the return of search_github, and the pool
\* =================================================================

\* Where main stands while the pool threads take work items: inside the
\* with block, or in its exit (shutdown(wait=True)) after an interrupt.
PoolAlive == {"submit", "collect", "interrupted"}

\* A task that a pool thread is executing.
Running(i) == tpc[i] \in {"checked", "cloning", "cloned", "except"}

\* What search_github can hand to main: sorted by stars, at most limit long.
SearchResults(lim) ==
    {s \in SeqsUpTo(PoolDescriptors, Min(lim, MaxRepos)) : IsSortedByStars(s)}

\* main after "repos = search_github(...)"; WORK_DIR was emptied before.
PoolInit ==
    /\ limit \in 0..MaxRepos
    /\ repos \in SearchResults(limit)
    /\ result = repos
    /\ repos_found = repos
    /\ spc = "returned"
    /\ catalog = <<>>
    /\ page = 1
    /\ requests = <<>>
    /\ delivered = <<>>
    /\ failure = "none"
    /\ mainpc = "searched"
    /\ submitted = 0
    /\ collected = <<>>
    /\ success_count = 0
    /\ manifest = <<>>
    /\ archive = <<>>
    /\ tpc = [i \in Tasks |-> "new"]
    /\ tres = [i \in Tasks |-> None]
    /\ calls = [i \in Tasks |-> 0]
    /\ gitCalls = [i \in Tasks |-> 0]
    /\ ending = [i \in Tasks |-> "-"]
    /\ fs = [t \in Targets |-> Absent]

\* ----------------------------------------------------- clone_single_repo

\* Begin with the check of target_path left out.
BeginNoCheck(i) ==
    /\ mainpc \in PoolAlive
    /\ tpc[i] = "queued"
    /\ \A j \in Tasks : j < i => tpc[j] # "queued"
    /\ Cardinality({j \in Tasks : Running(j)}) < MaxWorkers
    /\ calls' = [calls EXCEPT ![i] = @ + 1]
    /\ tpc' = [tpc EXCEPT ![i] = "checked"]
    /\ UNCHANGED <<tres, ending, gitCalls, fs>>
    /\ UNCHANGED <<searchVars, mainVars>>

\* Begin by a pool that starts a thread per work item, whatever max_workers.
BeginNoCap(i) ==
    /\ mainpc \in PoolAlive
    /\ tpc[i] = "queued"
    /\ \A j \in Tasks : j < i => tpc[j] # "queued"
    /\ calls' = [calls EXCEPT ![i] = @ + 1]
    /\ IF fs[Target(i)].exists
       THEN /\ tpc' = [tpc EXCEPT ![i] = "done"]
            /\ tres' = [tres EXCEPT ![i] = None]
            /\ ending' = [ending EXCEPT ![i] = "skipped"]
       ELSE /\ tpc' = [tpc EXCEPT ![i] = "checked"]
            /\ UNCHANGED <<tres, ending>>
    /\ UNCHANGED <<gitCalls, fs>>
    /\ UNCHANGED <<searchVars, mainVars>>

\* A pool thread takes the oldest queued work item and runs the task up to
\* "if target_path.exists(): return None".
Begin(i) ==
    /\ mainpc \in PoolAlive
    /\ tpc[i] = "queued"
    /\ \A j \in Tasks : j < i => tpc[j] # "queued"
    /\ Cardinality({j \in Tasks : Running(j)}) < MaxWorkers
    /\ calls' = [calls EXCEPT ![i] = @ + 1]
    /\ IF fs[Target(i)].exists
       THEN /\ tpc' = [tpc EXCEPT ![i] = "done"]
            /\ tres' = [tres EXCEPT ![i] = None]
            /\ ending' = [ending EXCEPT ![i] = "skipped"]
       ELSE /\ tpc' = [tpc EXCEPT ![i] = "checked"]
            /\ UNCHANGED <<tres, ending>>
    /\ UNCHANGED <<gitCalls, fs>>
    /\ UNCHANGED <<searchVars, mainVars>>

\* subprocess.run starts git clone: git refuses a destination that exists
\* and is not empty, and otherwise creates the directory and fills it.
GitStart(i) ==
    /\ tpc[i] = "checked"
    /\ gitCalls' = [gitCalls EXCEPT ![i] = @ + 1]
    /\ IF fs[Target(i)].exists
       THEN /\ tpc' = [tpc EXCEPT ![i] = "except"]
            /\ ending' = [ending EXCEPT ![i] = "refused"]
            /\ UNCHANGED fs
       ELSE /\ tpc' = [tpc EXCEPT ![i] = "cloning"]
            /\ fs' = [fs EXCEPT ![Target(i)] = Dir(i, FALSE, TRUE)]
            /\ UNCHANGED ending
    /\ UNCHANGED <<tres, calls>>
    /\ UNCHANGED <<searchVars, mainVars>>

\* subprocess.run raises before git has created anything.
GitLaunchFails(i) ==
    /\ tpc[i] = "checked"
    /\ gitCalls' = [gitCalls EXCEPT ![i] = @ + 1]
    /\ tpc' = [tpc EXCEPT ![i] = "except"]
    /\ ending' = [ending EXCEPT ![i] = "launch"]
    /\ UNCHANGED <<tres, calls, fs>>
    /\ UNCHANGED <<searchVars, mainVars>>

\* git clone exits 0: the directory it made, if still there, is complete.
GitExitOk(i) ==
    /\ tpc[i] = "cloning"
    /\ tpc' = [tpc EXCEPT ![i] = "cloned"]
    /\ ending' = [ending EXCEPT ![i] = "ok"]
    /\ fs' = IF fs[Target(i)] = Dir(i, FALSE, TRUE)
             THEN [fs EXCEPT ![Target(i)] = Dir(i, TRUE, TRUE)]
             ELSE fs
    /\ UNCHANGED <<tres, calls, gitCalls>>
    /\ UNCHANGED <<searchVars, mainVars>>

\* git clone exits non-zero (check=True raises): git removes the directory
\* it had created, or dies leaving what it wrote.
GitExitNonZero(i) ==
    /\ tpc[i] = "cloning"
    /\ tpc' = [tpc EXCEPT ![i] = "except"]
    /\ ending' = [ending EXCEPT ![i] = "exit"]
    /\ \/ fs' = [fs EXCEPT ![Target(i)] = Absent]
       \/ fs' = fs
    /\ UNCHANGED <<tres, calls, gitCalls>>
    /\ UNCHANGED <<searchVars, mainVars>>

\* The 180 s timeout expires: git is killed, what it wrote stays behind.
GitTimeout(i) ==
    /\ tpc[i] = "cloning"
    /\ tpc' = [tpc EXCEPT ![i] = "except"]
    /\ ending' = [ending EXCEPT ![i] = "timeout"]
    /\ UNCHANGED <<tres, calls, gitCalls, fs>>
    /\ UNCHANGED <<searchVars, mainVars>>

\* Finish with the descriptor not returned.
FinishReturnsNone(i) ==
    /\ tpc[i] = "cloned"
    /\ fs' = IF fs[Target(i)].exists
             THEN [fs EXCEPT ![Target(i)].dotgit = FALSE]
             ELSE fs
    /\ tres' = [tres EXCEPT ![i] = None]
    /\ tpc' = [tpc EXCEPT ![i] = "done"]
    /\ UNCHANGED <<calls, gitCalls, ending>>
    /\ UNCHANGED <<searchVars, mainVars>>

\* After the clone: remove target_path/.git if it exists, return repo_info.
Finish(i) ==
    /\ tpc[i] = "cloned"
    /\ fs' = IF fs[Target(i)].exists
             THEN [fs EXCEPT ![Target(i)].dotgit = FALSE]
             ELSE fs
    /\ tres' = [tres EXCEPT ![i] = repos[i]]
    /\ tpc' = [tpc EXCEPT ![i] = "done"]
    /\ UNCHANGED <<calls, gitCalls, ending>>
    /\ UNCHANGED <<searchVars, mainVars>>

\* Rollback with the rmtree left out.
RollbackKeepsDir(i) ==
    /\ tpc[i] = "except"
    /\ tres' = [tres EXCEPT ![i] = None]
    /\ tpc' = [tpc EXCEPT ![i] = "done"]
    /\ UNCHANGED <<calls, gitCalls, ending, fs>>
    /\ UNCHANGED <<searchVars, mainVars>>

\* Rollback that lets the failure reach main.
RollbackAborts(i) ==
    /\ tpc[i] = "except"
    /\ fs' = [fs EXCEPT ![Target(i)] = Absent]
    /\ tres' = [tres EXCEPT ![i] = None]
    /\ tpc' = [tpc EXCEPT ![i] = "done"]
    /\ mainpc' = "aborted"
    /\ UNCHANGED <<calls, gitCalls, ending>>
    /\ UNCHANGED <<searchVars, repos, submitted, collected, success_count, manifest, archive>>

\* except Exception: remove target_path if it exists, return None.
Rollback(i) ==
    /\ tpc[i] = "except"
    /\ fs' = [fs EXCEPT ![Target(i)] = Absent]
    /\ tres' = [tres EXCEPT ![i] = None]
    /\ tpc' = [tpc EXCEPT ![i] = "done"]
    /\ UNCHANGED <<calls, gitCalls, ending>>
    /\ UNCHANGED <<searchVars, mainVars>>

\* ------------------------------------------------------------------ main

\* if not repos: sys.exit(0)
MainNoRepos ==
    /\ mainpc = "searched"
    /\ repos = <<>>
    /\ mainpc' = "exit0"
    /\ UNCHANGED <<repos, submitted, collected, success_count, manifest, archive>>
    /\ UNCHANGED <<searchVars, taskVars>>

\* MainOpenPool without the test of an empty result.
MainOpenPoolAlways ==
    /\ mainpc = "searched"
    /\ mainpc' = "submit"
    /\ success_count' = 0
    /\ UNCHANGED <<repos, submitted, collected, manifest, archive>>
    /\ UNCHANGED <<searchVars, taskVars>>

\* success_count = 0; with ThreadPoolExecutor(max_workers=8) as executor
MainOpenPool ==
    /\ mainpc = "searched"
    /\ repos # <<>>
    /\ mainpc' = "submit"
    /\ success_count' = 0
    /\ UNCHANGED <<repos, submitted, collected, manifest, archive>>
    /\ UNCHANGED <<searchVars, taskVars>>

\* executor.submit(clone_single_repo, r, user_token) for the next r of repos
Submit ==
    /\ mainpc = "submit"
    /\ submitted' = submitted + 1
    /\ tpc' = [tpc EXCEPT ![submitted + 1] = "queued"]
    /\ mainpc' = IF submitted + 1 = K THEN "collect" ELSE "submit"
    /\ UNCHANGED <<repos, collected, success_count, manifest, archive>>
    /\ UNCHANGED <<tres, calls, gitCalls, ending, fs>>
    /\ UNCHANGED searchVars

\* Collect with every collected value counted as a success.
CollectCountsAll ==
    /\ mainpc = "collect"
    /\ Len(collected) < K
    /\ tpc[Len(collected) + 1] = "done"
    /\ collected' = Append(collected, tres[Len(collected) + 1])
    /\ success_count' = success_count + 1
    /\ UNCHANGED <<repos, mainpc, submitted, manifest, archive>>
    /\ UNCHANGED <<searchVars, taskVars>>

\* Collect without waiting for the future to be done.
CollectNoWait ==
    /\ mainpc = "collect"
    /\ Len(collected) < K
    /\ LET r == tres[Len(collected) + 1]
       IN  /\ collected' = Append(collected, r)
           /\ success_count' = IF r # None THEN success_count + 1 ELSE success_count
    /\ UNCHANGED <<repos, mainpc, submitted, manifest, archive>>
    /\ UNCHANGED <<searchVars, taskVars>>

\* result = future.result() for the next future, in submission order;
\* if result: success_count += 1
Collect ==
    /\ mainpc = "collect"
    /\ Len(collected) < K
    /\ tpc[Len(collected) + 1] = "done"
    /\ LET r == tres[Len(collected) + 1]
       IN  /\ collected' = Append(collected, r)
           /\ success_count' = IF r # None THEN success_count + 1 ELSE success_count
    /\ UNCHANGED <<repos, mainpc, submitted, manifest, archive>>
    /\ UNCHANGED <<searchVars, taskVars>>

\* PoolShutdown that does not wait for the tasks.
PoolShutdownEarly ==
    /\ mainpc = "collect"
    /\ mainpc' = "report"
    /\ UNCHANGED <<repos, submitted, collected, success_count, manifest, archive>>
    /\ UNCHANGED <<searchVars, taskVars>>

\* Leaving the with block: shutdown(wait=True) returns once no task runs.
PoolShutdown ==
    /\ mainpc = "collect"
    /\ Len(collected) = K
    /\ \A i \in Tasks : tpc[i] = "done"
    /\ mainpc' = "report"
    /\ UNCHANGED <<repos, submitted, collected, success_count, manifest, archive>>
    /\ UNCHANGED <<searchVars, taskVars>>

\* The lines "[stars] full_name -> clone_url" of the report.
ReportLines == [i \in Tasks |-> <<repos[i].stars, repos[i].full_name, repos[i].clone_url>>]

\* WriteReport listing only the descriptors that were cloned.
WriteReportSuccessesOnly ==
    /\ mainpc = "report"
    /\ LET got == SelectSeq(collected, LAMBDA r : r # None)
       IN  manifest' = Append(manifest,
               [requested |-> limit,
                downloaded |-> success_count,
                lines |-> [i \in 1..Len(got) |->
                             <<got[i].stars, got[i].full_name, got[i].clone_url>>]])
    /\ mainpc' = "zip"
    /\ UNCHANGED <<repos, submitted, collected, success_count, archive>>
    /\ UNCHANGED <<searchVars, taskVars>>

\* Writing _RAPPORT_DE_RECHERCHE.txt.
WriteReport ==
    /\ mainpc = "report"
    /\ manifest' = Append(manifest, [requested |-> limit,
                                     downloaded |-> success_count,
                                     lines |-> ReportLines])
    /\ mainpc' = "zip"
    /\ UNCHANGED <<repos, submitted, collected, success_count, archive>>
    /\ UNCHANGED <<searchVars, taskVars>>

\* shutil.make_archive over WORK_DIR, then rmtree(WORK_DIR).
MakeArchive ==
    /\ mainpc = "zip"
    /\ archive' = Append(archive, {t \in Targets : fs[t].exists})
    /\ fs' = [t \in Targets |-> Absent]
    /\ mainpc' = "finished"
    /\ UNCHANGED <<repos, submitted, collected, success_count, manifest>>
    /\ UNCHANGED <<tpc, tres, calls, gitCalls, ending>>
    /\ UNCHANGED searchVars

Init == PoolInit

Next ==
    \/ MainNoRepos
    \/ MainOpenPool
    \/ Submit
    \/ Collect
    \/ PoolShutdown
    \/ WriteReport
    \/ MakeArchive
    \/ \E i \in Tasks : Begin(i)
    \/ \E i \in Tasks : GitStart(i)
    \/ \E i \in Tasks : GitLaunchFails(i)
    \/ \E i \in Tasks : GitExitOk(i)
    \/ \E i \in Tasks : GitExitNonZero(i)
    \/ \E i \in Tasks : GitTimeout(i)
    \/ \E i \in Tasks : Finish(i)
    \/ \E i \in Tasks : Rollback(i)

Spec == Init /\ [][Next]_vars

\* Every thread keeps being scheduled, main included, and a git subprocess
\* exits or is stopped by its timeout: a run never halts while a step is
\* possible.
FairInit == PoolInit /\ Len(repos) <= MaxBatch

FairSpec == FairInit /\ [][Next]_vars /\ WF_vars(Next)

\* ------------------------------------------- more futures than pool threads

\* The descriptors of MaxWorkers + CapExtra different repositories of equal
\* stars, as search_github returns them.
CapRepos == [i \in 1..(MaxWorkers + CapExtra) |-> Descriptor(ItemFill(i))]

\* main after "repos = search_github(...)" with more descriptors than threads.
CapInit ==
    /\ limit = MaxWorkers + CapExtra
    /\ repos = CapRepos
    /\ result = repos
    /\ repos_found = repos
    /\ spc = "returned"
    /\ catalog = <<>>
    /\ page = 1
    /\ requests = <<>>
    /\ delivered = <<>>
    /\ failure = "none"
    /\ mainpc = "searched"
    /\ submitted = 0
    /\ collected = <<>>
    /\ success_count = 0
    /\ manifest = <<>>
    /\ archive = <<>>
    /\ tpc = [i \in Tasks |-> "new"]
    /\ tres = [i \in Tasks |-> None]
    /\ calls = [i \in Tasks |-> 0]
    /\ gitCalls = [i \in Tasks |-> 0]
    /\ ending = [i \in Tasks |-> "-"]
    /\ fs = [t \in Targets |-> Absent]

\* The steps of a run in which no git clone can be started: every task
\* passes its check, fails in subprocess.run and rolls back.
CapNext ==
    \/ MainOpenPool
    \/ Submit
    \/ Collect
    \/ PoolShutdown
    \/ WriteReport
    \/ MakeArchive
    \/ \E i \in Tasks : Begin(i)
    \/ \E i \in Tasks : GitLaunchFails(i)
    \/ \E i \in Tasks : Rollback(i)

CapSpec == CapInit /\ [][CapNext]_vars

\* ------------------------------------------------------ KeyboardInterrupt

\* Ctrl-C while main is inside the with block: KeyboardInterrupt is raised
\* in main, and the with block's exit calls executor.shutdown(wait=True).
Interrupt ==
    /\ mainpc \in {"submit", "collect"}
    /\ mainpc' = "interrupted"
    /\ UNCHANGED <<repos, submitted, collected, success_count, manifest, archive>>
    /\ UNCHANGED <<searchVars, taskVars>>

\* shutdown(wait=True) returns once the queue is empty and no task runs;
\* the exception reaches "except KeyboardInterrupt" and the run ends.
InterruptedExit ==
    /\ mainpc = "interrupted"
    /\ \A i \in Tasks : tpc[i] \in {"new", "done"}
    /\ mainpc' = "stopped"
    /\ UNCHANGED <<repos, submitted, collected, success_count, manifest, archive>>
    /\ UNCHANGED <<searchVars, taskVars>>

InterruptNext ==
    \/ CapNext
    \/ Interrupt
    \/ InterruptedExit

\* Runs over more descriptors than pool threads, with Ctrl-C possible.
InterruptSpec == CapInit /\ [][InterruptNext]_vars

\* =================================================================
\* Claims about search_github (checked under SearchSpec)
\* =================================================================

Returned == spc = "returned"

\* The descriptors of the items the API delivered, in delivery order.
RECURSIVE DescriptorsOf(_)
DescriptorsOf(items) ==
    IF items = <<>> THEN <<>>
    ELSE <<Descriptor(Head(items))>> \o DescriptorsOf(Tail(items))

StarsOf(s) == [i \in DOMAIN s |-> s[i].stars]

\* C5 as stated, for a positive requested count: when every page request
\* succeeds and the API holds N items, the call returns min(N, limit)
\* descriptors.
C5_AsStated ==
    (Returned /\ failure = "none" /\ limit >= 1)
        => Len(result) = Min(Len(catalog), limit)

\* C5, amended: when every page request succeeds and the API serves its N
\* items in consecutive full pages, the call returns min(N, limit, MaxPages
\* pages of items) descriptors for limit >= 0, and none for limit < 0.
C5_CountUpToCeiling ==
    (Returned /\ failure = "none")
        => Len(result) = IF limit < 0 THEN 0
                         ELSE Min(Min(Len(catalog), limit), PageCap)

C5_Witness ==
    /\ Returned /\ failure = "none"
    /\ limit > PageCap /\ Len(catalog) > PageCap
    /\ Len(result) = PageCap

\* C6 as stated: the returned list is sorted by non-increasing stars and
\* holds the limit most popular of the items the API delivered, whatever
\* the delivery order.
C6_AsStated ==
    (Returned /\ failure = "none")
        => /\ IsSortedByStars(result)
           /\ StarsOf(result)
                = StarsOf(Slice(SortByStars(DescriptorsOf(delivered)), limit))

\* C6, amended: the returned list is sorted by non-increasing stars; unless
\* a request was answered 401 it consists of the first limit items in the
\* order the API delivered them; and when the API delivers in non-increasing
\* star order these are the most popular items, in delivery order.
C6_SortedFirstDelivered ==
    Returned =>
        /\ IsSortedByStars(result)
        /\ failure # "401" =>
             LET first == Slice(DescriptorsOf(delivered), Max(limit, 0))
             IN  /\ SamePermutation(result, first)
                 /\ IsSortedByStars(DescriptorsOf(delivered)) => result = first

C6_Witness ==
    /\ Returned /\ failure = "none"
    /\ limit >= 1 /\ Len(delivered) > limit
    /\ ~IsSortedByStars(DescriptorsOf(delivered))
    /\ Len(result) = limit

NoDuplicates(s) ==
    \A i, j \in DOMAIN s : s[i].full_name = s[j].full_name => i = j

\* No page of the API's answers holds the same repository twice.
PagesDuplicateFree ==
    \A p \in 1..MaxPages : NoDuplicates(DescriptorsOf(PageItems(catalog, p)))

\* C7: the returned list never holds two descriptors with the same
\* full_name, even when the API returns a repository on more than one page.
C7_NoDuplicateFullName ==
    (Returned /\ PagesDuplicateFree) => NoDuplicates(result)

\* C8: at most MaxPages (10) page requests in one call, numbered 1, 2, 3, ...
C8_AtMostTenPages ==
    /\ Len(requests) <= MaxPages
    /\ \A i \in DOMAIN requests : requests[i] = i

C8_Witness ==
    /\ Returned
    /\ Len(requests) = MaxPages
    /\ limit > Len(result)

BreakFailures == {"403", "other", "transport"}

\* C10: after a 403, another non-200 status or a transport failure, the
\* call has returned (it did not raise), it returned exactly the descriptors
\* of the pages before the failing one, and it requests no further page.
C10_ReturnsAccumulated ==
    [][/\ failure' \in BreakFailures =>
            /\ Returned'
            /\ SamePermutation(result', DescriptorsOf(delivered'))
       /\ failure \in BreakFailures => requests' = requests]_vars

\* 403 on page 2 after a full page 1, with more than a page requested.
C10_Witness ==
    /\ Returned /\ failure = "403"
    /\ requests = <<1, 2>>
    /\ Len(delivered) = PerPage /\ limit > PerPage
    /\ Len(result) = PerPage

\* =================================================================
\* Claims about the pool and clone_single_repo (checked under Spec)
\* =================================================================

Drained == mainpc \in {"report", "zip"}

FailureEndings == {"refused", "launch", "exit", "timeout"}

\* C1: the pool run over K descriptors gives K outcomes, one per descriptor:
\* no task is invoked twice, and once the pool has drained every descriptor
\* has had one invocation and main has collected its task's outcome, which
\* is None or that descriptor.
C1_OneOutcomePerDescriptor ==
    /\ \A i \in Tasks : calls[i] <= 1
    /\ Len(collected) <= K
    /\ (Drained \/ mainpc = "finished") =>
         /\ Len(collected) = K
         /\ \A i \in Tasks :
              /\ calls[i] = 1
              /\ collected[i] = tres[i]
              /\ collected[i] \in {None, repos[i]}

C1_Witness ==
    /\ Drained
    /\ K >= 2
    /\ \E i, j \in Tasks : collected[i] = None /\ collected[j] = repos[j]

C3_ExistingTargetSkipped ==
    [][\A i \in Tasks :
         /\ (tpc[i] = "queued" /\ tpc'[i] # "queued" /\ fs[Target(i)].exists) =>
              /\ tpc'[i] = "done"
              /\ tres'[i] = None
              /\ ending'[i] = "skipped"
              /\ gitCalls' = gitCalls
              /\ fs' = fs
         /\ ending'[i] = "skipped" => gitCalls'[i] = 0]_vars

C3_Witness ==
    \E i \in Tasks :
        /\ tpc[i] = "done" /\ ending[i] = "skipped"
        /\ tres[i] = None /\ gitCalls[i] = 0
        /\ fs[Target(i)].exists

\* C4: when the pool has drained, every task that returned its descriptor
\* still has its target directory, also when two distinct descriptors map
\* to the same folder name.
C4_SuccessKeepsDirectory ==
    (Drained /\ NoDuplicates(repos)) =>
        \A i \in Tasks : tres[i] # None => fs[Target(i)].exists

\* =================================================================
\* Claims about the pool size (checked under CapSpec)
\* =================================================================

RunningTasks == {i \in Tasks : Running(i)}

\* C11: at every moment at most MaxWorkers (8) clone tasks are executing,
\* however many descriptors are scheduled.
C11_AtMostEightRunning == Cardinality(RunningTasks) <= MaxWorkers

\* The pool is full while a further future waits in the queue.
C11_Witness ==
    /\ K > MaxWorkers
    /\ Cardinality(RunningTasks) = MaxWorkers
    /\ \E i \in Tasks : tpc[i] = "queued"

\* =================================================================
\* Claims about the report and the archive (checked under Spec)
\* =================================================================

Succeeded == {i \in Tasks : tres[i] # None}

\* C12: the succeeded count written to the report is the number of tasks
\* that returned their descriptor (clone ended "ok"); skipped and failed
\* tasks are not counted; and it does not exceed the requested count.
C12_SucceededCount ==
    manifest # <<>> =>
        /\ manifest[1].downloaded = Cardinality(Succeeded)
        /\ Succeeded = {i \in Tasks : ending[i] = "ok"}
        /\ manifest[1].downloaded <= manifest[1].requested

\* A report after one success, one skip and one failure.
C12_Witness ==
    /\ manifest # <<>>
    /\ manifest[1].downloaded = 1
    /\ \E i, j \in Tasks : ending[i] = "skipped" /\ ending[j] \in FailureEndings

\* C15: the report lists exactly one line per descriptor that search_github
\* returned, in the order it returned them, whatever the outcomes of the
\* clone tasks (success, skipped, failed).
C15_OneLinePerDescriptor ==
    manifest # <<>> =>
        /\ Len(manifest[1].lines) = Len(repos)
        /\ \A i \in 1..Len(repos) :
               manifest[1].lines[i] =
                   <<repos[i].stars, repos[i].full_name, repos[i].clone_url>>

\* A report written after one task succeeded, one was skipped and one failed.
C15_Witness ==
    /\ manifest # <<>>
    /\ \E i, j, k \in Tasks :
           /\ ending[i] = "ok"
           /\ ending[j] = "skipped"
           /\ ending[k] \in FailureEndings

\* From the moment main starts writing the report onwards.
ReportBegun == mainpc \in {"report", "zip", "finished"}

\* C16: the report is written at most once in a run, and only after every
\* scheduled clone task has completed: from the moment the write begins,
\* every descriptor has been submitted and no task is queued or running.
C16_ReportOnceAfterDrain ==
    /\ Len(manifest) <= 1
    /\ manifest # <<>> => ReportBegun
    /\ ReportBegun =>
           /\ submitted = K
           /\ \A i \in Tasks : tpc[i] = "done"

\* The run has ended with its one report, written for a full batch.
C16_Witness ==
    /\ mainpc = "finished"
    /\ Len(manifest) = 1
    /\ K = MaxRepos
    /\ \A i \in Tasks : tpc[i] = "done"

\* C17: when search_github returned no descriptor (an empty result, a 401
\* included), the run ends early through sys.exit(0): no clone task is
\* scheduled, no report is written and no archive is created.
C17_NoDescriptorsExitEarly ==
    repos = <<>> =>
        /\ mainpc \in {"searched", "exit0"}
        /\ submitted = 0
        /\ manifest = <<>>
        /\ archive = <<>>

\* The run has ended through sys.exit(0) on an empty search result.
C17_Witness ==
    /\ repos = <<>>
    /\ mainpc = "exit0"
    /\ limit > 0

\* C18: no two clone tasks target the same workspace subdirectory: two
\* scheduled descriptors of different repositories have different target
\* paths.
C18_DistinctTargets ==
    \A i, j \in Tasks :
        ( /\ tpc[i] # "new"
          /\ tpc[j] # "new"
          /\ repos[i].full_name # repos[j].full_name )
        => Target(i) # Target(j)

\* C19: a failed clone task is represented as a failure among the collected
\* outcomes: the value main collects for a task that failed differs from
\* the value it collects for a task skipped on an existing directory.
C19_FailureDistinguishable ==
    \A i, j \in 1..Len(collected) :
        (ending[i] \in FailureEndings /\ ending[j] = "skipped")
        => collected[i] # collected[j]

\* The scheduled descriptors have pairwise distinct folder names.
DistinctFolders == \A i, j \in Tasks : i # j => Target(i) # Target(j)

C13_NoStartAfterInterrupt ==
    [][mainpc = "interrupted" =>
         \A i \in Tasks :
             (i > MaxWorkers /\ tpc[i] = "queued") => tpc'[i] = "queued"]_vars

\* =================================================================
\* Claims about progress (checked under FairSpec)
\* =================================================================

\* C14: no clone task failure aborts the batch.  Once the pool is open and
\* no interrupt occurs, the run reaches the state in which every submitted
\* task has an outcome, main has collected all of them and the report has
\* been written, whichever tasks fail.
C14_BatchDrains ==
    (mainpc = "submit") ~>
        /\ manifest # <<>>
        /\ Len(collected) = K
        /\ \A i \in Tasks : tpc[i] = "done"

\* The report written after every task of a batch of several failed.
C14_Witness ==
    /\ K >= 2
    /\ manifest # <<>>
    /\ \A i \in Tasks : ending[i] \in FailureEndings

====
